---------------------------- MODULE Spec2Model ----------------------------
(***************************************************************************)
(* Model of the chat backend in src/app.py: the /api/chat handler          *)
(* (chat_api) with its three provider helpers, /api/history and            *)
(* /api/clear_history, over the conversations table.                       *)
(*                                                                         *)
(* Text is modelled as a sequence of tokens.  A token is one character     *)
(* where single characters matter (the backtick, the quote, the JSON       *)
(* punctuation, blanks) and a whole word or phrase elsewhere.  A Python    *)
(* str is therefore a Seq(STRING); concatenation is \o.                    *)
(***************************************************************************)
EXTENDS Integers, Sequences, FiniteSets, TLC

(***************************************************************************)
(* JSON values as json.loads builds them.  One record shape for every      *)
(* kind, so that any two values can be compared.  A dict keeps insertion   *)
(* order (list(instr.keys())[0] reads it), hence a sequence of pairs.      *)
(***************************************************************************)
JStr(s) == [t |-> "str", s |-> s, kv |-> <<>>, items |-> <<>>]
JObj(kv) == [t |-> "obj", s |-> <<>>, kv |-> kv, items |-> <<>>]
JArr(items) == [t |-> "arr", s |-> <<>>, kv |-> <<>>, items |-> items]
JNull == [t |-> "null", s |-> <<>>, kv |-> <<>>, items |-> <<>>]

HasKey(kv, k) == \E i \in 1..Len(kv) : kv[i].k = k

\* dict.get(k, default)
DictGet(kv, k, default) ==
    IF HasKey(kv, k)
    THEN kv[CHOOSE i \in 1..Len(kv) : kv[i].k = k].v
    ELSE default

\* d[k] = v : an existing key keeps its place, a new key goes last
DictSet(kv, k, v) ==
    IF HasKey(kv, k)
    THEN [i \in 1..Len(kv) |-> IF kv[i].k = k THEN [k |-> k, v |-> v] ELSE kv[i]]
    ELSE Append(kv, [k |-> k, v |-> v])

(***************************************************************************)
(* str.strip() and str.replace(pat, '')                                    *)
(***************************************************************************)
Whitespace == {" ", "\n"}

RECURSIVE LStrip(_)
LStrip(text) ==
    IF text # <<>> /\ Head(text) \in Whitespace THEN LStrip(Tail(text)) ELSE text

RECURSIVE RStrip(_)
RStrip(text) ==
    IF text # <<>> /\ text[Len(text)] \in Whitespace
    THEN RStrip(SubSeq(text, 1, Len(text) - 1))
    ELSE text

Strip(text) == RStrip(LStrip(text))

IsPrefix(pat, text) ==
    Len(pat) <= Len(text) /\ SubSeq(text, 1, Len(pat)) = pat

\* every non-overlapping occurrence of pat, leftmost first, is removed
RECURSIVE Remove(_, _)
Remove(text, pat) ==
    IF text = <<>> THEN <<>>
    ELSE IF IsPrefix(pat, text)
         THEN Remove(SubSeq(text, Len(pat) + 1, Len(text)), pat)
         ELSE <<Head(text)>> \o Remove(Tail(text), pat)

\* the backtick character (a TLA+ string cannot hold one)
Backtick == "<backtick>"

FenceJson == <<Backtick, Backtick, Backtick, "json">>
Fence == <<Backtick, Backtick, Backtick>>

\* response.text.strip().replace('```json', '').replace('```', '')
StripFences(text) == Remove(Remove(Strip(text), FenceJson), Fence)

(***************************************************************************)
(* json.loads: a recursive-descent decoder over the tokens.  Each parser   *)
(* returns [ok, val, pos]: pos is the index of the first token not         *)
(* consumed.  Strings, objects, arrays and null are decoded; any other     *)
(* token where a value is expected is a decode error.                      *)
(***************************************************************************)
Quote == "\""

Fail == [ok |-> FALSE, val |-> JNull, pos |-> 0]

RECURSIVE SkipWs(_, _)
SkipWs(text, i) ==
    IF i <= Len(text) /\ text[i] \in Whitespace THEN SkipWs(text, i + 1) ELSE i

At(text, i, tok) == i <= Len(text) /\ text[i] = tok

\* index of the closing quote of the string whose content starts at i, or 0;
\* a raw newline inside a string is a control character, which json rejects
RECURSIVE CloseQuote(_, _)
CloseQuote(text, i) ==
    IF i > Len(text) THEN 0
    ELSE IF text[i] = Quote THEN i
    ELSE IF text[i] = "\n" THEN 0
    ELSE CloseQuote(text, i + 1)

ParseString(text, i) ==
    IF ~At(text, i, Quote) THEN Fail
    ELSE LET j == CloseQuote(text, i + 1)
         IN  IF j = 0 THEN Fail
             ELSE [ok |-> TRUE, val |-> JStr(SubSeq(text, i + 1, j - 1)), pos |-> j + 1]

RECURSIVE ParseValue(_, _)
RECURSIVE ParseMembers(_, _, _)
RECURSIVE ParseElements(_, _, _)

\* after "{" or ",": a key, ":", a value, then "," or "}"
ParseMembers(text, i, kv) ==
    LET key == ParseString(text, SkipWs(text, i))
    IN  IF ~key.ok THEN Fail
        ELSE LET c == SkipWs(text, key.pos)
             IN  IF ~At(text, c, ":") THEN Fail
                 ELSE LET v == ParseValue(text, c + 1)
                      IN  IF ~v.ok THEN Fail
                          ELSE LET kv2 == DictSet(kv, key.val.s, v.val)
                                   e == SkipWs(text, v.pos)
                               IN  IF At(text, e, ",") THEN ParseMembers(text, e + 1, kv2)
                                   ELSE IF At(text, e, "}")
                                        THEN [ok |-> TRUE, val |-> JObj(kv2), pos |-> e + 1]
                                        ELSE Fail

\* after "[" or ",": a value, then "," or "]"
ParseElements(text, i, items) ==
    LET v == ParseValue(text, i)
    IN  IF ~v.ok THEN Fail
        ELSE LET items2 == Append(items, v.val)
                 e == SkipWs(text, v.pos)
             IN  IF At(text, e, ",") THEN ParseElements(text, e + 1, items2)
                 ELSE IF At(text, e, "]")
                      THEN [ok |-> TRUE, val |-> JArr(items2), pos |-> e + 1]
                      ELSE Fail

ParseValue(text, i0) ==
    LET i == SkipWs(text, i0)
    IN  IF At(text, i, Quote) THEN ParseString(text, i)
        ELSE IF At(text, i, "null") THEN [ok |-> TRUE, val |-> JNull, pos |-> i + 1]
        ELSE IF At(text, i, "{")
             THEN LET n == SkipWs(text, i + 1)
                  IN  IF At(text, n, "}")
                      THEN [ok |-> TRUE, val |-> JObj(<<>>), pos |-> n + 1]
                      ELSE ParseMembers(text, i + 1, <<>>)
        ELSE IF At(text, i, "[")
             THEN LET n == SkipWs(text, i + 1)
                  IN  IF At(text, n, "]")
                      THEN [ok |-> TRUE, val |-> JArr(<<>>), pos |-> n + 1]
                      ELSE ParseElements(text, i + 1, <<>>)
        ELSE Fail

\* json.loads(text): ok is FALSE where Python raises json.JSONDecodeError
JsonLoads(text) ==
    LET v == ParseValue(text, 1)
    IN  IF v.ok /\ SkipWs(text, v.pos) = Len(text) + 1
        THEN [ok |-> TRUE, val |-> v.val]
        ELSE [ok |-> FALSE, val |-> JNull]

(***************************************************************************)
(* State.  conversations is the table of that name, in insertion order;    *)
(* timestamps never decrease, so SELECT ... ORDER BY timestamp ASC reads   *)
(* a user's rows in this order.  youtube, spotify, WEATHER_API_KEY and     *)
(* model say whether the client or key was configured at start-up.         *)
(* response is the last reply sent, request what was asked, and work what  *)
(* the handler computed on the way (for the properties below).             *)
(***************************************************************************)
VARIABLES conversations, youtube, spotify, WEATHER_API_KEY, model,
          request, response, work

vars == <<conversations, youtube, spotify, WEATHER_API_KEY, model,
          request, response, work>>

config == <<youtube, spotify, WEATHER_API_KEY, model>>

Str(tok) == JStr(<<tok>>)
Pair(key, v) == [k |-> <<key>>, v |-> v]

\* None, and any other falsy url
NoUrl == <<>>

\* how an f-string renders a value: a str as itself, anything else by its repr
Format(v) == IF v.t = "str" THEN v.s ELSE <<"<repr>">>

(***************************************************************************)
(* Provider helpers.  o is what the remote service did on this call.       *)
(* Each returns [raised, url, speech]; raised is TRUE where the Python     *)
(* function lets an exception escape.                                      *)
(***************************************************************************)
YouTubeOutcomes == {"no_videos", "embeddable", "not_embeddable", "error"}
SpotifyOutcomes == {"not_found", "found", "error"}
WeatherOutcomes == {"ok", "request_error", "key_error", "other_error"}

Returned(url, speech) == [raised |-> FALSE, url |-> url, speech |-> speech]
Raised == [raised |-> TRUE, url |-> NoUrl, speech |-> <<>>]

get_youtube_video_url(search_term, o) ==
    IF ~youtube THEN Returned(NoUrl, <<"YouTube API is not configured.">>)
    ELSE IF o = "no_videos"
         THEN Returned(NoUrl, <<"I couldn't find any YouTube videos for '">>
                              \o Format(search_term) \o <<"'.">>)
    ELSE IF o = "embeddable"
         THEN Returned(<<"https://www.youtube.com/embed/", "<videoId>">>,
                       <<"Playing the top result for '">> \o Format(search_term)
                       \o <<"' on YouTube.">>)
    ELSE IF o = "not_embeddable"
         THEN Returned(NoUrl, <<"Sorry, I found videos for '">> \o Format(search_term)
                              \o <<"', but none of them can be played here.">>)
    ELSE Returned(NoUrl, <<"Sorry, I couldn't find a video for '">>
                         \o Format(search_term) \o <<"' on YouTube.">>)

get_spotify_track_url(search_term, o) ==
    IF ~spotify THEN Returned(NoUrl, <<"Spotify API is not configured.">>)
    ELSE IF o = "not_found"
         THEN Returned(NoUrl, <<"Sorry, I couldn't find the song '">>
                              \o Format(search_term) \o <<"' on Spotify.">>)
    ELSE IF o = "found"
         THEN Returned(<<"https://open.spotify.com/embed/track/", "<trackId>">>,
                       <<"Playing '", "<trackName>", "' on Spotify.">>)
    ELSE Returned(NoUrl, <<"Sorry, I couldn't play '">> \o Format(search_term)
                         \o <<"' on Spotify.">>)

\* only requests.exceptions.RequestException and KeyError are caught: any
\* other exception (an IndexError on an empty data['weather'], a TypeError on
\* a payload of another shape) leaves the function
get_weather(city, o) ==
    IF ~WEATHER_API_KEY THEN Returned(NoUrl, <<"Weather API key is not configured.">>)
    ELSE IF o = "ok"
         THEN Returned(NoUrl, <<"The weather in ">> \o Format(city)
                              \o <<" is currently ", "<description>",
                                   " with a temperature of ", "<temp>", "<degree sign>C.">>)
    ELSE IF o = "request_error"
         THEN Returned(NoUrl, <<"Sorry, I couldn't fetch the weather for ">>
                              \o Format(city) \o <<".">>)
    ELSE IF o = "key_error"
         THEN Returned(NoUrl, <<"Sorry, I couldn't find weather data for ">>
                              \o Format(city) \o <<".">>)
    ELSE Raised

(***************************************************************************)
(* datetime.now() and strftime.  A reading of the wall clock is a record;  *)
(* the handler reads the clock anew for every command.                     *)
(***************************************************************************)
Clocks ==
    { [hour |-> 14, minute |-> 5, year |-> 2026, month |-> 11, day |-> 1, weekday |-> 7],
      [hour |-> 0, minute |-> 30, year |-> 2027, month |-> 1, day |-> 15, weekday |-> 5] }

Digit(n) == <<"0", "1", "2", "3", "4", "5", "6", "7", "8", "9">>[n + 1]

\* zero-padded decimal, two and four digits
D2(n) == <<Digit((n \div 10) % 10), Digit(n % 10)>>
D4(n) == D2(n \div 100) \o D2(n % 100)

WeekdayName(n) ==
    <<"Monday", "Tuesday", "Wednesday", "Thursday", "Friday", "Saturday", "Sunday">>[n]

MonthName(n) ==
    <<"January", "February", "March", "April", "May", "June", "July", "August",
      "September", "October", "November", "December">>[n]

\* now.strftime("%I:%M %p")
StrfTime12(now) ==
    D2(IF now.hour % 12 = 0 THEN 12 ELSE now.hour % 12) \o <<":">> \o D2(now.minute)
    \o <<" ", IF now.hour < 12 THEN "AM" ELSE "PM">>

\* now.strftime('%A, %B %d, %Y')
StrfFullDate(now) ==
    <<WeekdayName(now.weekday), ", ", MonthName(now.month), " ">> \o D2(now.day)
    \o <<", ">> \o D4(now.year)

\* now.strftime('%Y-%m-%d')
StrfIsoDate(now) == D4(now.year) \o <<"-">> \o D2(now.month) \o <<"-">> \o D2(now.day)

TimeSpeech(now) == <<"The current time is ">> \o StrfTime12(now) \o <<".">>

DateSpeech(value, now) ==
    IF value = Str("full_date") THEN <<"Today is ">> \o StrfFullDate(now) \o <<".">>
    ELSE IF value = Str("year") THEN <<"The current year is ">> \o D4(now.year) \o <<".">>
    ELSE IF value = Str("last_year") THEN <<"Last year was ">> \o D4(now.year - 1) \o <<".">>
    ELSE <<"The date today is ">> \o StrfIsoDate(now) \o <<".">>

(***************************************************************************)
(* The dispatch loop of chat_api.  outs[i] is what the outside world did   *)
(* for the i-th element: now is the clock reading (for get_time and        *)
(* get_date), did the provider's outcome (for the three provider           *)
(* commands); the field a command does not use is left at its blank.       *)
(***************************************************************************)
Unread == [hour |-> 0, minute |-> 0, year |-> 0, month |-> 0, day |-> 0, weekday |-> 0]
Outcome(now, did) == [now |-> now, did |-> did]
NoOutcome == Outcome(Unread, "-")

\* list(instr.keys())[0] is defined for a dict with at least one key: an
\* element that is no dict has no keys() (AttributeError), {} has no [0]
\* (IndexError)
HasCommand(instr) == instr.t = "obj" /\ instr.kv # <<>>
CommandOf(instr) == instr.kv[1].k
ValueOf(instr) == instr.kv[1].v

ServerCommands ==
    { <<"get_time">>, <<"get_date">>, <<"get_weather">>,
      <<"play_youtube_direct">>, <<"play_spotify_direct">> }

OutcomesOf(instr) ==
    IF ~HasCommand(instr) THEN {NoOutcome}
    ELSE LET Did(kinds) == { Outcome(Unread, k) : k \in kinds }
         IN  IF CommandOf(instr) \in {<<"get_time">>, <<"get_date">>}
             THEN { Outcome(now, "-") : now \in Clocks }
             ELSE IF CommandOf(instr) = <<"get_weather">> THEN Did(WeatherOutcomes)
             ELSE IF CommandOf(instr) = <<"play_youtube_direct">> THEN Did(YouTubeOutcomes)
             ELSE IF CommandOf(instr) = <<"play_spotify_direct">> THEN Did(SpotifyOutcomes)
             ELSE {NoOutcome}

OpenUrl(url) == JObj(<<Pair("open_url", JStr(url))>>)

\* one pass of the loop body: what it appends to final_instructions and to
\* confirmation_speech, or raised
Body(instr, o) ==
    IF ~HasCommand(instr) THEN [raised |-> TRUE, instrs |-> <<>>, speech |-> <<>>]
    ELSE LET command == CommandOf(instr)
             value == ValueOf(instr)
             Says(text) == [raised |-> FALSE, instrs |-> <<>>, speech |-> <<text>>]
             Plays(r) == [raised |-> r.raised,
                          instrs |-> IF r.url # NoUrl THEN <<OpenUrl(r.url)>> ELSE <<>>,
                          speech |-> <<r.speech>>]
         IN  IF command = <<"get_time">> THEN Says(TimeSpeech(o.now))
             ELSE IF command = <<"get_date">> THEN Says(DateSpeech(value, o.now))
             ELSE IF command = <<"get_weather">>
                  THEN LET r == get_weather(value, o.did)
                       IN  [raised |-> r.raised, instrs |-> <<>>, speech |-> <<r.speech>>]
             ELSE IF command = <<"play_youtube_direct">>
                  THEN Plays(get_youtube_video_url(value, o.did))
             ELSE IF command = <<"play_spotify_direct">>
                  THEN Plays(get_spotify_track_url(value, o.did))
             ELSE [raised |-> FALSE, instrs |-> <<instr>>, speech |-> <<>>]

\* list.insert(0, ...) in place of append
ExtendFront(list, more) == more \o list

\* final_instructions.append / confirmation_speech.append
Extend(list, more) == list \o more

\* for instr in ...: from element i on, with the two lists built so far
RECURSIVE Loop(_, _, _, _, _)
Loop(items, outs, i, final_instructions, confirmation_speech) ==
    IF i > Len(items)
    THEN [raised |-> FALSE, final_instructions |-> final_instructions,
          confirmation_speech |-> confirmation_speech]
    ELSE LET b == Body(items[i], outs[i])
         IN  IF b.raised
             THEN [raised |-> TRUE, final_instructions |-> <<>>,
                   confirmation_speech |-> <<>>]
             ELSE Loop(items, outs, i + 1, Extend(final_instructions, b.instrs),
                       Extend(confirmation_speech, b.speech))

\* what "for instr in x" iterates over: a list's elements, a dict's keys, a
\* str's characters; None is not iterable (TypeError)
Iterable(x) == x.t # "null"
Elements(x) ==
    IF x.t = "arr" THEN x.items
    ELSE IF x.t = "obj" THEN [i \in 1..Len(x.kv) |-> JStr(x.kv[i].k)]
    ELSE [i \in 1..Len(x.s) |-> Str(x.s[i])]

\* "".join(confirmation_speech)
RECURSIVE JoinGlued(_)
JoinGlued(parts) ==
    IF parts = <<>> THEN <<>> ELSE parts[1] \o JoinGlued(Tail(parts))

\* " ".join(confirmation_speech)
RECURSIVE Join(_)
Join(parts) ==
    IF parts = <<>> THEN <<>>
    ELSE IF Len(parts) = 1 THEN parts[1]
    ELSE parts[1] \o <<" ">> \o Join(Tail(parts))

(***************************************************************************)
(* The conversations table.                                                *)
(***************************************************************************)
\* INSERT INTO conversations (user_id, user_message, bot_response)
InsertRow(rows, user_id, user_message, bot_response) ==
    Append(rows, [user_id |-> user_id, user_message |-> user_message,
                  bot_response |-> bot_response])

\* SELECT user_message, bot_response ... WHERE user_id = ? ORDER BY timestamp ASC
SelectRows(rows, user_id) == SelectSeq(rows, LAMBDA r : r.user_id = user_id)

\* DELETE FROM conversations, the WHERE clause forgotten
DeleteEveryRow(rows, user_id) == SelectSeq(rows, LAMBDA r : FALSE)

\* DELETE FROM conversations WHERE user_id = ?
DeleteRows(rows, user_id) == SelectSeq(rows, LAMBDA r : r.user_id # user_id)

\* sqlite3 binds a str to the TEXT NOT NULL column; None violates NOT NULL
\* and a list or a dict cannot be bound at all
Bindable(x) == x.t = "str"

(***************************************************************************)
(* chat_api.  world is what the outside does during the request: fault     *)
(* ("db_read": the SELECT raises, "model_call": generate_content or        *)
(* response.text raises, "db_write": the INSERT or the commit raises),     *)
(* raw the text the model returns, outs the outcome of each command.       *)
(* The result is the reply, whether a row was committed, and the           *)
(* intermediate values.                                                    *)
(***************************************************************************)
Reply(status, body) ==
    [status |-> status, body |-> body, inserted |-> FALSE, bot_response_text |-> <<>>,
     stage |-> "direct", response_json |-> JNull, items |-> <<>>,
     final_instructions |-> <<>>, confirmation_speech |-> <<>>]

Conversation(speech) ==
    JObj(<<Pair("action", Str("conversation")), Pair("speech", Str(speech))>>)

Unauthorized == Reply(401, JObj(<<Pair("error", Str("Unauthorized"))>>))
NotConfigured == Reply(500, Conversation("AI model is not configured."))
NoMessage == Reply(400, JObj(<<Pair("error", Str("No message provided"))>>))

\* except json.JSONDecodeError
TroubleReply ==
    [Reply(500, Conversation("I'm having a little trouble understanding. Could you rephrase that?"))
     EXCEPT !.stage = "malformed"]

\* the generic reply, had the row been written before the request was processed
UnexpectedReplyAfterInsert ==
    [Reply(500, Conversation("I'm sorry, an unexpected error occurred. Please try again."))
     EXCEPT !.stage = "unexpected", !.inserted = TRUE]

\* except Exception
UnexpectedReply ==
    [Reply(500, Conversation("I'm sorry, an unexpected error occurred. Please try again."))
     EXCEPT !.stage = "unexpected"]

IsInstruction(response_json) ==
    DictGet(response_json.kv, <<"action">>, JNull) = Str("instruction")

\* cursor.execute(INSERT ...); conn.commit(); return jsonify(body)
Store(body, bot_response_text, fault, sofar) ==
    IF ~Bindable(bot_response_text) \/ fault = "db_write"
    THEN [UnexpectedReply EXCEPT !.response_json = sofar.response_json,
                                 !.items = sofar.items,
                                 !.final_instructions = sofar.final_instructions,
                                 !.confirmation_speech = sofar.confirmation_speech]
    ELSE [sofar EXCEPT !.status = 200, !.body = body, !.inserted = TRUE,
                       !.bot_response_text = bot_response_text.s]

Assemble(response_json, l) ==
    IF l.confirmation_speech # <<>>
    THEN JObj(<<Pair("action", Str("instruction_and_conversation")),
                Pair("speech", JStr(Join(l.confirmation_speech))),
                Pair("instruction", JArr(l.final_instructions))>>)
    ELSE JObj(DictSet(response_json.kv, <<"instruction">>, JArr(l.final_instructions)))

chat_api(session, user_query, world) ==
    IF ~session.logged_in THEN Unauthorized
    ELSE IF ~model THEN NotConfigured
    ELSE IF user_query = <<>> THEN NoMessage
    ELSE IF world.fault \in {"db_read", "model_call"} THEN UnexpectedReply
    ELSE LET decoded == JsonLoads(StripFences(world.raw))
             response_json == decoded.val
         IN
         IF ~decoded.ok THEN TroubleReply
         ELSE IF response_json.t # "obj"
              THEN [UnexpectedReply EXCEPT !.response_json = response_json]
         ELSE IF IsInstruction(response_json)
              THEN LET x == DictGet(response_json.kv, <<"instruction">>, JArr(<<>>))
                   IN
                   IF ~Iterable(x)
                   THEN [UnexpectedReply EXCEPT !.response_json = response_json]
                   ELSE LET l == Loop(Elements(x), world.outs, 1, <<>>, <<>>)
                            sofar == [Reply(0, JNull) EXCEPT
                                          !.stage = "instruction",
                                          !.response_json = response_json,
                                          !.items = Elements(x),
                                          !.final_instructions = l.final_instructions,
                                          !.confirmation_speech = l.confirmation_speech]
                        IN
                        IF l.raised
                        THEN [UnexpectedReply EXCEPT !.response_json = response_json,
                                                     !.items = Elements(x)]
                        ELSE LET final_response == Assemble(response_json, l)
                                 bot_response_text ==
                                     DictGet(final_response.kv, <<"speech">>,
                                             Str("Executing instruction."))
                             IN  Store(final_response, bot_response_text,
                                       world.fault, sofar)
         ELSE Store(response_json, DictGet(response_json.kv, <<"speech">>, JNull),
                    world.fault,
                    [Reply(0, JNull) EXCEPT !.stage = "conversation",
                                            !.response_json = response_json])

\* get_history's reply
get_history(session) ==
    IF ~session.logged_in THEN Unauthorized
    ELSE LET history_rows == SelectRows(conversations, session.user_id)
         IN  Reply(200, JArr([i \in 1..Len(history_rows) |->
                        JObj(<<Pair("user", JStr(history_rows[i].user_message)),
                               Pair("bot", JStr(history_rows[i].bot_response))>>)]))

\* clear_history's reply
clear_history(session) ==
    IF ~session.logged_in THEN Unauthorized
    ELSE Reply(200, JObj(<<Pair("message", Str("History cleared successfully."))>>))

(***************************************************************************)
(* What the model may return.  The prompt asks for one minified JSON       *)
(* object; Minified writes a value that way.  The texts below are that     *)
(* object, alone or wrapped in code fences, and texts that are no JSON.    *)
(***************************************************************************)
RECURSIVE Minified(_)
RECURSIVE MinifiedList(_, _, _)

\* elements i.. of a list (isObj = FALSE) or members i.. of a dict, comma-separated
MinifiedList(v, i, isObj) ==
    LET n == IF isObj THEN Len(v.kv) ELSE Len(v.items)
        this == IF isObj
                THEN <<Quote>> \o v.kv[i].k \o <<Quote, ":">> \o Minified(v.kv[i].v)
                ELSE Minified(v.items[i])
    IN  IF i > n THEN <<>>
        ELSE IF i = n THEN this
        ELSE this \o <<",">> \o MinifiedList(v, i + 1, isObj)

Minified(v) ==
    IF v.t = "str" THEN <<Quote>> \o v.s \o <<Quote>>
    ELSE IF v.t = "null" THEN <<"null">>
    ELSE IF v.t = "arr" THEN <<"[">> \o MinifiedList(v, 1, FALSE) \o <<"]">>
    ELSE <<"{">> \o MinifiedList(v, 1, TRUE) \o <<"}">>

Wrappings == {"bare", "json fence", "plain fence", "blanks"}

Wrapped(text, w) ==
    IF w = "json fence" THEN FenceJson \o <<"\n">> \o text \o <<"\n">> \o Fence
    ELSE IF w = "plain fence" THEN Fence \o text \o Fence \o <<"\n">>
    ELSE IF w = "blanks" THEN <<" ">> \o text \o <<"\n">>
    ELSE text

Command(name, value) == JObj(<<Pair(name, value)>>)

ConversationJson(speech) ==
    JObj(<<Pair("action", Str("conversation")), Pair("speech", JStr(speech))>>)

InstructionJson(commands) ==
    JObj(<<Pair("action", Str("instruction")), Pair("instruction", JArr(commands))>>)

\* bounds of the input family
MaxSpeechLen == 3
MaxCmds == 2
MaxRows == 2

RECURSIVE SeqsUpTo(_, _)
SeqsUpTo(S, n) ==
    IF n = 0 THEN {<<>>}
    ELSE LET shorter == SeqsUpTo(S, n - 1)
         IN  shorter \cup {Append(q, x) : q \in {r \in shorter : Len(r) = n - 1}, x \in S}

SpeechTokens == {Backtick, "json", "Hello!"}
Speeches == SeqsUpTo(SpeechTokens, MaxSpeechLen)

SendWhatsapp ==
    Command("send_whatsapp", JObj(<<Pair("number", Str("5550100")),
                                    Pair("message", Str("on my way"))>>))

PassThroughCommands ==
    { Command("open_website", Str("wikipedia")), Command("search_google", Str("cats")),
      SendWhatsapp }

ExecutedCommands ==
    { Command("get_time", Str("current")), Command("get_date", Str("full_date")),
      Command("get_weather", Str("paris")), Command("play_youtube_direct", Str("lofi")),
      Command("play_spotify_direct", Str("Stairway to Heaven")) }

\* elements outside the prompt's vocabulary: an unknown name, an object with
\* no key, a bare string
OddElements == { Command("dance", Str("now")), JObj(<<>>), Str("open_website") }

DateCommands ==
    { Command("get_date", Str(k)) : k \in {"full_date", "year", "last_year", "tomorrow"} }

\* the commands that are combined into longer lists
CoreCommands ==
    { Command("open_website", Str("wikipedia")), Command("get_time", Str("current")),
      Command("get_weather", Str("paris")), Command("play_youtube_direct", Str("lofi")),
      JObj(<<>>) }

\* every element alone, and every list of core commands up to MaxCmds
CommandLists ==
    SeqsUpTo(CoreCommands, MaxCmds)
    \cup { <<c>> : c \in PassThroughCommands \cup ExecutedCommands \cup OddElements
                          \cup DateCommands }
    \cup { <<Command("play_spotify_direct", Str("Stairway to Heaven")),
             Command("search_google", Str("cats"))>>,
           <<Command("dance", Str("now")), SendWhatsapp>> }

\* valid JSON that is neither of the two shapes the prompt asks for
OddJsons ==
    { JObj(<<Pair("action", Str("chat")), Pair("speech", Str("Hello!"))>>),
      JObj(<<Pair("speech", Str("Hello!"))>>),
      JObj(<<>>),
      JObj(<<Pair("action", Str("conversation"))>>),
      JObj(<<Pair("action", Str("conversation")), Pair("speech", JNull)>>),
      JObj(<<Pair("action", Str("conversation")), Pair("speech", JArr(<<Str("Hello!")>>))>>),
      JObj(<<Pair("action", JNull), Pair("speech", Str("Hello!"))>>),
      JObj(<<Pair("action", Str("instruction"))>>),
      JObj(<<Pair("action", Str("instruction")), Pair("instruction", JNull)>>),
      JObj(<<Pair("action", Str("instruction")), Pair("instruction", Str("get_time"))>>),
      JObj(<<Pair("action", Str("instruction")), Pair("instruction", JObj(<<>>))>>),
      JObj(<<Pair("action", Str("instruction")),
             Pair("instruction", Command("get_time", Str("current")))>>),
      JObj(<<Pair("action", Str("instruction")), Pair("speech", Str("Opening it.")),
             Pair("instruction", JArr(<<Command("open_website", Str("wikipedia"))>>))>>),
      JObj(<<Pair("action", Str("instruction")), Pair("speech", JNull),
             Pair("instruction", JArr(<<Command("open_website", Str("wikipedia"))>>))>>),
      JObj(<<Pair("action", Str("instruction")), Pair("speech", Str("On it.")),
             Pair("instruction", JArr(<<Command("get_time", Str("current"))>>))>>),
      JObj(<<Pair("action", Str("instruction")), Pair("note", Str("x")),
             Pair("instruction", JArr(<<SendWhatsapp>>))>>),
      JArr(<<>>), Str("Hello!"), JNull }

\* prose, nothing at all, a truncated object, an unterminated string
NonJsonTexts ==
    { <<>>, <<"Sure, I can help with that.">>,
      <<"Sure!", " ", "{", Quote, "action", Quote, ":", Quote, "conversation", Quote>>,
      <<"{", Quote, "action", Quote, ":", Quote, "conversation", Quote, ",",
        Quote, "speech", Quote, ":", Quote, "Hello!", "}">>,
      <<"{", Quote, "action", Quote, ":", Quote, "conversation", Quote, "}", "}">> }

ModelTexts ==
    { Wrapped(Minified(ConversationJson(sp)), w) : sp \in Speeches, w \in Wrappings }
    \cup { Minified(InstructionJson(cl)) : cl \in CommandLists }
    \cup { Wrapped(Minified(InstructionJson(<<c>>)), "json fence") : c \in PassThroughCommands }
    \cup { Minified(j) : j \in OddJsons }
    \cup NonJsonTexts

\* the few texts used where many requests follow one another
FewTexts ==
    { Minified(ConversationJson(<<"Hello!">>)),
      Wrapped(Minified(InstructionJson(<<Command("open_website", Str("wikipedia"))>>)),
              "json fence"),
      Minified(InstructionJson(<<Command("get_weather", Str("paris")),
                                 Command("search_google", Str("cats"))>>)),
      Minified(JObj(<<Pair("action", Str("chat")), Pair("speech", Str("Hello!"))>>)),
      <<"Sure, I can help with that.">> }

(***************************************************************************)
(* Requests.                                                               *)
(***************************************************************************)
Users == {1, 2}

\* flask's session: a logged-in user, or nobody
Sessions ==
    { [logged_in |-> TRUE, user_id |-> u] : u \in Users }
    \cup { [logged_in |-> FALSE, user_id |-> 0] }

\* request.json.get('message'): <<>> is the missing or empty message
Messages == { <<>>, <<"what's up?">> }

\* the elements the loop would visit for this text, <<>> if it is never entered
ItemsOf(raw) ==
    LET decoded == JsonLoads(StripFences(raw))
    IN  IF decoded.ok /\ decoded.val.t = "obj" /\ IsInstruction(decoded.val)
        THEN LET x == DictGet(decoded.val.kv, <<"instruction">>, JArr(<<>>))
             IN  IF Iterable(x) THEN Elements(x) ELSE <<>>
        ELSE <<>>

RECURSIVE OutSeqs(_, _)
OutSeqs(items, i) ==
    IF i > Len(items) THEN {<<>>}
    ELSE { <<o>> \o rest : o \in OutcomesOf(items[i]), rest \in OutSeqs(items, i + 1) }

NoWorld == [fault |-> "none", raw |-> <<>>, outs |-> <<>>]

WorldsOver(texts) ==
    { [NoWorld EXCEPT !.fault = f] : f \in {"db_read", "model_call"} }
    \cup UNION { { [fault |-> f, raw |-> raw, outs |-> outs] :
                       f \in {"none", "db_write"}, outs \in OutSeqs(ItemsOf(raw), 1) } :
                 raw \in texts }

AllWorlds == WorldsOver(ModelTexts)
FewWorlds == WorldsOver(FewTexts)

\* the handler gets as far as the try block
Processed(session, user_query) == session.logged_in /\ model /\ user_query # <<>>

Sent(result) == [status |-> result.status, body |-> result.body]

ChatApi(worlds) ==
    \E session \in Sessions, user_query \in Messages :
      \E world \in IF Processed(session, user_query) THEN worlds ELSE {NoWorld} :
        LET result == chat_api(session, user_query, world)
        IN  /\ conversations' =
                  IF result.inserted
                  THEN InsertRow(conversations, session.user_id, user_query,
                                 result.bot_response_text)
                  ELSE conversations
            /\ request' = [op |-> "chat", session |-> session,
                           user_query |-> user_query, world |-> world]
            /\ response' = Sent(result)
            /\ work' = result
            /\ UNCHANGED config

GetHistory ==
    \E session \in Sessions :
        /\ request' = [op |-> "history", session |-> session,
                       user_query |-> <<>>, world |-> NoWorld]
        /\ response' = Sent(get_history(session))
        /\ work' = get_history(session)
        /\ UNCHANGED <<conversations, config>>

ClearHistory ==
    \E session \in Sessions :
        /\ conversations' =
              IF session.logged_in
              THEN DeleteRows(conversations, session.user_id)
              ELSE conversations
        /\ request' = [op |-> "clear", session |-> session,
                       user_query |-> <<>>, world |-> NoWorld]
        /\ response' = Sent(clear_history(session))
        /\ work' = clear_history(session)
        /\ UNCHANGED config

\* start-up: init_db has created the tables, the clients are built or None;
\* a configuration is <<youtube, spotify, WEATHER_API_KEY, model>>
Started == [op |-> "start", session |-> [logged_in |-> FALSE, user_id |-> 0],
            user_query |-> <<>>, world |-> NoWorld]

InitWith(tables, configs) ==
    /\ conversations \in tables
    /\ \E c \in configs :
          /\ youtube = c[1]
          /\ spotify = c[2]
          /\ WEATHER_API_KEY = c[3]
          /\ model = c[4]
    /\ request = Started
    /\ response = Sent(Reply(0, JNull))
    /\ work = Reply(0, JNull)

(***************************************************************************)
(* Spec: any number of requests by the users, over the few texts, the      *)
(* table capped at MaxRows rows.                                           *)
(***************************************************************************)
Init == InitWith({<<>>}, {<<TRUE, TRUE, TRUE, TRUE>>, <<TRUE, TRUE, TRUE, FALSE>>})

Chat == Len(conversations) < MaxRows /\ ChatApi(FewWorlds)

Next == Chat \/ GetHistory \/ ClearHistory

Spec == Init /\ [][Next]_vars

(***************************************************************************)
(* SpecRequest: one chat request over every text of ModelTexts, on an      *)
(* empty table or on one that holds a row of an earlier turn, followed by  *)
(* reads and clears.                                                       *)
(***************************************************************************)
EarlierTurn == InsertRow(<<>>, 1, <<"hi">>, <<"Hello!">>)

InitRequest ==
    /\ InitWith({<<>>, EarlierTurn},
                {<<TRUE, TRUE, TRUE, TRUE>>, <<FALSE, FALSE, FALSE, TRUE>>,
                 <<TRUE, TRUE, TRUE, FALSE>>})

FirstChat == request.op = "start" /\ ChatApi(AllWorlds)

NextRequest == FirstChat \/ GetHistory \/ ClearHistory

SpecRequest == InitRequest /\ [][NextRequest]_vars

(***************************************************************************)
(* Properties.                                                             *)
(***************************************************************************)
ChatProcessed == request.op = "chat" /\ Processed(request.session, request.user_query)

ErrorReply == work.stage \in {"malformed", "unexpected"}

ActionOf(json) == DictGet(json.kv, <<"action">>, JNull)

LastRow == conversations[Len(conversations)]

\* C1: a chat request that ends in the malformed-output reply or in the
\* unexpected-error reply leaves the conversations table, the rows of every
\* user, exactly as it was before the request.
C1_NoAppendOnError ==
    [][(request'.op = "chat" /\ work'.stage \in {"malformed", "unexpected"})
          => conversations' = conversations]_vars

\* an error reply given while the table holds the row of an earlier turn
C1_Witness ==
    /\ ChatProcessed
    /\ ErrorReply
    /\ request.world.fault = "db_write"
    /\ work.confirmation_speech # <<>>
    /\ conversations = EarlierTurn

\* C2: decoded JSON with no recognized action, or with action="instruction"
\* and no instruction list, is answered with the apologetic conversation
\* reply and a failure status, and no history row is written.
UnknownShape(json) ==
    \/ ActionOf(json) \notin {Str("conversation"), Str("instruction")}
    \/ /\ ActionOf(json) = Str("instruction")
       /\ DictGet(json.kv, <<"instruction">>, JNull).t # "arr"

C2_UnknownShapeIsParseError ==
    (ChatProcessed /\ work.response_json.t = "obj" /\ UnknownShape(work.response_json))
        => /\ response.status = 500
           /\ ActionOf(response.body) = Str("conversation")
           /\ ErrorReply
           /\ ~work.inserted

\* C3: in an instruction list of well-formed commands, a provider call that
\* fails, whatever the fault, becomes a fallback sentence: every command
\* still yields its confirmation or instruction and the request does not end
\* in the generic error reply.
ProviderFaults == {"error", "request_error", "key_error", "other_error"}

IsCommandList(json) ==
    ActionOf(json) = Str("instruction")
    /\ DictGet(json.kv, <<"instruction">>, JNull).t = "arr"

Executed(instr) == HasCommand(instr) /\ CommandOf(instr) \in ServerCommands

C3_ProviderFailureIsolated ==
    ( /\ ChatProcessed
      /\ request.world.fault = "none"
      /\ work.response_json.t = "obj"
      /\ IsCommandList(work.response_json)
      /\ \A i \in 1..Len(work.items) : HasCommand(work.items[i])
      /\ \E i \in 1..Len(work.items) : request.world.outs[i].did \in ProviderFaults )
        => /\ work.stage = "instruction"
           /\ Len(work.confirmation_speech)
                = Cardinality({i \in 1..Len(work.items) : Executed(work.items[i])})

\* C4: an element of the command list that matches no known command shape
\* (an unknown name, an object with no key, anything that is no object) is
\* forwarded unchanged as a client instruction and does not fail the request.
C4_UnknownElementForwarded ==
    ( /\ ChatProcessed
      /\ request.world.fault = "none"
      /\ work.response_json.t = "obj"
      /\ IsCommandList(work.response_json)
      /\ \A i \in 1..Len(work.items) : request.world.outs[i].did # "other_error"
      /\ \E i \in 1..Len(work.items) : ~Executed(work.items[i]) )
        => /\ work.stage = "instruction"
           /\ \A i \in 1..Len(work.items) :
                ~Executed(work.items[i])
                    => \E k \in 1..Len(work.final_instructions) :
                          work.final_instructions[k] = work.items[i]

\* what the provider of a play command returned
PlayResult(instr, o) ==
    IF CommandOf(instr) = <<"play_youtube_direct">>
    THEN get_youtube_video_url(ValueOf(instr), o.did)
    ELSE get_spotify_track_url(ValueOf(instr), o.did)

IsPlay(instr) ==
    CommandOf(instr) \in {<<"play_youtube_direct">>, <<"play_spotify_direct">>}

\* the sentence command instr is answered with
SentenceFor(instr, o) ==
    IF CommandOf(instr) = <<"get_time">> THEN TimeSpeech(o.now)
    ELSE IF CommandOf(instr) = <<"get_date">> THEN DateSpeech(ValueOf(instr), o.now)
    ELSE IF CommandOf(instr) = <<"get_weather">> THEN get_weather(ValueOf(instr), o.did).speech
    ELSE PlayResult(instr, o).speech

\* the number of members of S up to i: the place of i among them
Rank(S, i) == Cardinality({j \in S : j <= i})

\* C5: the dispatch loop keeps input order in both outputs.  The k-th
\* confirmation is the sentence of the k-th server-executed command; the
\* client instructions are, in input order, every pass-through command
\* unchanged and one open_url for every play command whose provider returned
\* a url, and nothing else.
C5_DispatchKeepsOrder ==
    (request.op = "chat" /\ work.stage = "instruction")
        => LET items == work.items
               outs == request.world.outs
               said == {i \in 1..Len(items) : Executed(items[i])}
               sent == {i \in 1..Len(items) :
                           \/ ~Executed(items[i])
                           \/ IsPlay(items[i]) /\ PlayResult(items[i], outs[i]).url # NoUrl}
           IN  /\ Len(work.confirmation_speech) = Cardinality(said)
               /\ \A i \in said :
                     work.confirmation_speech[Rank(said, i)] = SentenceFor(items[i], outs[i])
               /\ Len(work.final_instructions) = Cardinality(sent)
               /\ \A i \in sent :
                     work.final_instructions[Rank(sent, i)]
                       = IF Executed(items[i])
                         THEN OpenUrl(PlayResult(items[i], outs[i]).url)
                         ELSE items[i]

\* a played video after a pass-through command, then a second confirmation
C5_Witness ==
    /\ request.op = "chat"
    /\ work.stage = "instruction"
    /\ Len(work.items) = 2
    /\ ~Executed(work.items[1])
    /\ IsPlay(work.items[2])
    /\ Len(work.final_instructions) = 2
    /\ Len(work.confirmation_speech) = 1

\* C6: an instruction whose dispatch produced no confirmation is answered
\* with action=instruction, the dispatched instruction list and no speech
\* key, and the history entry of the turn is "Executing instruction.",
\* whatever other keys the model output carries.
C6_PassThroughReply ==
    (request.op = "chat" /\ work.stage = "instruction" /\ work.confirmation_speech = <<>>)
        => /\ ActionOf(response.body) = Str("instruction")
           /\ DictGet(response.body.kv, <<"instruction">>, JNull)
                = JArr(work.final_instructions)
           /\ ~HasKey(response.body.kv, <<"speech">>)
           /\ LastRow.bot_response = <<"Executing instruction.">>

\* the length of parts[1..n] joined by one-token separators
RECURSIVE JoinedLen(_, _)
JoinedLen(parts, n) ==
    IF n = 0 THEN 0
    ELSE JoinedLen(parts, n - 1) + Len(parts[n]) + (IF n > 1 THEN 1 ELSE 0)

\* C7: an instruction whose dispatch produced at least one confirmation is
\* answered with exactly {action: instruction_and_conversation, speech,
\* instruction}: speech is the confirmations in order with a single space
\* between neighbours, instruction is the dispatched list, and the history
\* entry of the turn is that speech.
C7_SpokenReply ==
    (request.op = "chat" /\ work.stage = "instruction" /\ work.confirmation_speech # <<>>)
        => LET parts == work.confirmation_speech
               body == response.body
               speech == DictGet(body.kv, <<"speech">>, JNull)
           IN  /\ body.t = "obj"
               /\ {body.kv[i].k : i \in 1..Len(body.kv)}
                    = {<<"action">>, <<"speech">>, <<"instruction">>}
               /\ Len(body.kv) = Cardinality({<<"action">>, <<"speech">>, <<"instruction">>})
               /\ ActionOf(body) = Str("instruction_and_conversation")
               /\ DictGet(body.kv, <<"instruction">>, JNull) = JArr(work.final_instructions)
               /\ speech.t = "str"
               /\ Len(speech.s) = JoinedLen(parts, Len(parts))
               /\ \A n \in 1..Len(parts) :
                     /\ SubSeq(speech.s, JoinedLen(parts, n) - Len(parts[n]) + 1,
                               JoinedLen(parts, n)) = parts[n]
                     /\ n > 1 => speech.s[JoinedLen(parts, n) - Len(parts[n])] = " "
               /\ LastRow.bot_response = speech.s
               /\ LastRow.user_message = request.user_query
               /\ LastRow.user_id = request.session.user_id

\* two confirmations, and a play command whose provider returned no url
C7_Witness ==
    /\ request.op = "chat"
    /\ work.stage = "instruction"
    /\ Len(work.confirmation_speech) = 2
    /\ work.final_instructions = <<>>
    /\ \E i \in 1..Len(work.items) : IsPlay(work.items[i])

\* C8: a raw model text that is valid JSON with action="conversation" and a
\* string speech is parsed to that very speech, also when the speech holds
\* code-fence markers, and that speech is returned and written to history.
C8_SpeechUnchanged ==
    LET direct == JsonLoads(request.world.raw)
        speech == DictGet(direct.val.kv, <<"speech">>, JNull)
    IN  ( /\ ChatProcessed
          /\ request.world.fault = "none"
          /\ direct.ok
          /\ direct.val.t = "obj"
          /\ ActionOf(direct.val) = Str("conversation")
          /\ speech.t = "str" )
            => /\ work.stage = "conversation"
               /\ DictGet(response.body.kv, <<"speech">>, JNull) = speech
               /\ LastRow.bot_response = speech.s

\* C9: every reply to a request that reaches model processing carries an
\* action that is conversation, instruction or instruction_and_conversation.
C9_ActionInVocabulary ==
    ChatProcessed
        => /\ response.body.t = "obj"
           /\ ActionOf(response.body) \in
                {Str("conversation"), Str("instruction"), Str("instruction_and_conversation")}

\* the text chat_api stores for a reply: its speech, or the fixed sentence
StoredText(body) ==
    IF HasKey(body.kv, <<"speech">>)
    THEN DictGet(body.kv, <<"speech">>, JNull).s
    ELSE <<"Executing instruction.">>

\* C10: a successful chat request adds one entry, (message, response text),
\* at the end of the caller's history and changes no other entry of any
\* user; a failed one and get_history change nothing; clear_history removes
\* the caller's entries and no others.
C10_HistoryFrame ==
    [][ LET caller == request'.session.user_id
            others == Users \ {caller}
            Kept(u) == SelectRows(conversations', u) = SelectRows(conversations, u)
        IN  /\ (request'.op = "chat" /\ response'.status = 200)
                  => /\ SelectRows(conversations', caller)
                          = Append(SelectRows(conversations, caller),
                                   [user_id |-> caller, user_message |-> request'.user_query,
                                    bot_response |-> StoredText(response'.body)])
                     /\ Len(conversations') = Len(conversations) + 1
                     /\ \A u \in others : Kept(u)
            /\ (request'.op = "chat" /\ response'.status # 200)
                  => conversations' = conversations
            /\ request'.op = "history" => conversations' = conversations
            /\ request'.op = "clear"
                  => /\ \A u \in others : Kept(u)
                     /\ request'.session.logged_in => SelectRows(conversations', caller) = <<>>
                     /\ ~request'.session.logged_in => conversations' = conversations
      ]_vars

\* a user has cleared their history while the other user's entries remain
C10_Witness ==
    /\ request.op = "clear"
    /\ request.session.logged_in
    /\ response.status = 200
    /\ conversations # <<>>

=============================================================================
